---- MODULE Spec2Model ----
(***************************************************************************)
(* Model of rust_sql_parser (src/rust_sql_parser/src/main.rs): the command *)
(* line tool that parses one SQL command and prints the names of the       *)
(* tables its SELECT reads from.                                           *)
(*                                                                         *)
(* The SQL text never appears: the external parser (sqlite3_parser) is     *)
(* represented by what it yields for the text, a parse result carrying an  *)
(* AST.  Strings are sequences of characters; the character U+001F is      *)
(* written Sep.  Option is a sequence of length at most one.  The          *)
(* recursion of the traversal is kept as the sequence of calls still to be *)
(* made, the innermost first.                                              *)
(***************************************************************************)
EXTENDS Naturals, Sequences, FiniteSets, TLC

VARIABLES arg, pc, stack, table_names, table_name_strings, stdout, status, saved, ncalls

vars == <<arg, pc, stack, table_names, table_name_strings, stdout, status, saved, ncalls>>

None == <<>>
Some(x) == <<x>>

----------------------------------------------------------------------------
(* Bounds of the model. *)

\* Largest number of OneSelect and SelectTable nodes of an input AST (Spec).
MaxNodes == 5

\* The same for the inputs of the repeated library calls (SpecCalls).
MaxNodesCalls == 4

\* Number of calls of the library function in one process (SpecCalls).
MaxCalls == 3

\* Largest number of nodes of an input AST of the runs to the end (SpecLive).
MaxNodesLive == 4

\* Longest identifier token, quotes included (SpecFormat).
MaxTokenLen == 3

----------------------------------------------------------------------------
(* Identifier tokens as the parser hands them over: verbatim, quotes kept. *)

Sep == "<US>"
Comma == ","
Quote == "<BQ>"

RECURSIVE SeqsUpTo(_, _)
SeqsUpTo(S, n) ==
  IF n = 0 THEN {<<>>}
  ELSE LET shorter == SeqsUpTo(S, n - 1)
       IN  shorter \cup {Append(s, c) : s \in shorter, c \in S}

\* The body of a quoted identifier: any character, a quote only doubled.
RECURSIVE IsQuotedBody(_)
IsQuotedBody(s) ==
  IF s = <<>> THEN TRUE
  ELSE IF Head(s) # Quote THEN IsQuotedBody(Tail(s))
  ELSE Len(s) >= 2 /\ s[2] = Quote /\ IsQuotedBody(Tail(Tail(s)))

IsBareToken(s) == s # <<>> /\ \A i \in 1..Len(s) : s[i] = "a"

IsQuotedToken(s) ==
  /\ Len(s) >= 2
  /\ s[1] = Quote
  /\ s[Len(s)] = Quote
  /\ IsQuotedBody(SubSeq(s, 2, Len(s) - 1))

Tokens == {s \in SeqsUpTo({"a", Quote, Sep}, MaxTokenLen) : IsBareToken(s) \/ IsQuotedToken(s)}

QualifiedNamesOver(dbs, names) ==
  [db_name : {None} \cup {Some(d) : d \in dbs}, name : names]

\* The names of the inputs of the traversal: a and s.a.
WalkNames == QualifiedNamesOver({<<"s">>}, {<<"a">>})

----------------------------------------------------------------------------
(* The AST of a SELECT, by the number of its OneSelect and SelectTable     *)
(* nodes.                                                                   *)

RECURSIVE SelectTables(_, _), JoinSeqs(_, _), FromClauses(_, _), OneSelects(_, _),
          CompoundSeqs(_, _), SelectBodies(_, _), Selects(_, _)

SelectTables(Q, n) ==
  IF n = 0 THEN {}
  ELSE {[kind |-> "Table", qualified_name |-> q] : q \in Q}
       \cup {[kind |-> "TableCall", qualified_name |-> q] : q \in Q}
       \cup {[kind |-> "Select", select |-> s] : s \in Selects(Q, n - 1)}
       \cup {[kind |-> "Sub", from |-> f] : f \in FromClauses(Q, n - 1)}

JoinSeqs(Q, n) ==
  {<<>>} \cup UNION {{<<[table |-> t]>> \o rest : t \in SelectTables(Q, i), rest \in JoinSeqs(Q, n - i)} :
                     i \in 1..n}

\* The parser fills the primary source before it adds a join.
FromClauses(Q, n) ==
  {[select |-> None, joins |-> None]}
  \cup UNION {[select : {Some(t) : t \in SelectTables(Q, i)},
               joins : {None} \cup {Some(js) : js \in JoinSeqs(Q, n - i) \ {<<>>}}] : i \in 1..n}

\* Of the fields of OneSelect::Select the FROM clause and the WHERE clause
\* are kept, the WHERE clause by the subquery its expression holds, if any.
OneSelects(Q, n) ==
  IF n = 0 THEN {}
  ELSE {[kind |-> "Values"]}
       \cup UNION {[kind : {"Select"},
                    from : {None} \cup {Some(f) : f \in FromClauses(Q, i)},
                    where_clause : {None} \cup {Some(s) : s \in Selects(Q, n - 1 - i)}] : i \in 0..(n - 1)}

CompoundSeqs(Q, n) ==
  {<<>>} \cup UNION {{<<[select |-> o]>> \o rest : o \in OneSelects(Q, i), rest \in CompoundSeqs(Q, n - i)} :
                     i \in 1..n}

SelectBodies(Q, n) ==
  UNION {[select : OneSelects(Q, i),
          compounds : {None} \cup {Some(cs) : cs \in CompoundSeqs(Q, n - i) \ {<<>>}}] : i \in 1..n}

Selects(Q, n) == {[body |-> b] : b \in SelectBodies(Q, n)}

\* What parser.next() yields for the text.
ParseResults(selects) ==
  {[kind |-> "Err"], [kind |-> "None"], [kind |-> "Explain"], [kind |-> "ExplainQueryPlan"],
   [kind |-> "OtherStmt"]}
  \cup {[kind |-> "Select", select |-> s] : s \in selects}

----------------------------------------------------------------------------
(* The functions of main.rs.  A traversal function is the sequence of      *)
(* calls it makes, in order, and the accumulator it leaves.                *)

Call(fn, node) == [fn |-> fn, node |-> node]
Result(calls, names) == [calls |-> calls, table_names |-> names]

\* add_unique_qualified_name without its search.
add_qualified_name_unchecked(names, new_name) == Append(names, new_name)

add_unique_qualified_name(names, new_name) ==
  IF \E i \in 1..Len(names) : names[i] = new_name
  THEN names
  ELSE Append(names, new_name)

extract_table_names_from_select(select, names) ==
  Result(<<Call("select_body", select.body)>>, names)

\* extract_table_names_from_select_body without its loop.
extract_table_names_from_primary_select_only(body, names) ==
  Result(<<Call("one_select", body.select)>>, names)

extract_table_names_from_select_body(body, names) ==
  Result(<<Call("one_select", body.select)>>
           \o (IF body.compounds # None
               THEN [i \in 1..Len(body.compounds[1]) |-> Call("one_select", body.compounds[1][i].select)]
               ELSE <<>>),
         names)

extract_table_names_from_one_select(one_select, names) ==
  IF one_select.kind = "Select"
  THEN IF one_select.from # None
       THEN Result(<<Call("from_clause", one_select.from[1])>>, names)
       ELSE Result(<<>>, names)
  ELSE Result(<<>>, names)

\* extract_table_names_from_from_clause without its loop.
extract_table_names_from_primary_source_only(from_clause, names) ==
  Result((IF from_clause.select # None
          THEN <<Call("select_table", from_clause.select[1])>>
          ELSE <<>>),
         names)

\* extract_table_names_from_from_clause with the joined sources walked first.
extract_table_names_from_joins_first(from_clause, names) ==
  Result((IF from_clause.joins # None
          THEN [i \in 1..Len(from_clause.joins[1]) |-> Call("select_table", from_clause.joins[1][i].table)]
          ELSE <<>>)
           \o (IF from_clause.select # None
               THEN <<Call("select_table", from_clause.select[1])>>
               ELSE <<>>),
         names)

extract_table_names_from_from_clause(from_clause, names) ==
  Result((IF from_clause.select # None
          THEN <<Call("select_table", from_clause.select[1])>>
          ELSE <<>>)
           \o (IF from_clause.joins # None
               THEN [i \in 1..Len(from_clause.joins[1]) |-> Call("select_table", from_clause.joins[1][i].table)]
               ELSE <<>>),
         names)

\* extract_table_names_from_select_table that does not descend.
extract_table_names_from_plain_tables_only(select_table, names) ==
  CASE select_table.kind = "Table" ->
         Result(<<>>, add_unique_qualified_name(names, select_table.qualified_name))
    [] select_table.kind = "TableCall" ->
         Result(<<>>, add_unique_qualified_name(names, select_table.qualified_name))
    [] OTHER -> Result(<<>>, names)

extract_table_names_from_select_table(select_table, names) ==
  CASE select_table.kind = "Table" ->
         Result(<<>>, add_unique_qualified_name(names, select_table.qualified_name))
    [] select_table.kind = "TableCall" ->
         Result(<<>>, add_unique_qualified_name(names, select_table.qualified_name))
    [] select_table.kind = "Select" ->
         Result(<<Call("select", select_table.select)>>, names)
    [] select_table.kind = "Sub" ->
         Result(<<Call("from_clause", select_table.from)>>, names)

\* One call, whichever function it is of.
Dispatch(call, names) ==
  CASE call.fn = "select" -> extract_table_names_from_select(call.node, names)
    [] call.fn = "select_body" -> extract_table_names_from_select_body(call.node, names)
    [] call.fn = "one_select" -> extract_table_names_from_one_select(call.node, names)
    [] call.fn = "from_clause" -> extract_table_names_from_from_clause(call.node, names)
    [] call.fn = "select_table" -> extract_table_names_from_select_table(call.node, names)

\* The pending calls run to completion.
RECURSIVE RunCalls(_, _)
RunCalls(calls, names) ==
  IF calls = <<>> THEN names
  ELSE LET r == Dispatch(Head(calls), names)
       IN  RunCalls(r.calls \o Tail(calls), r.table_names)

extract_table_names(select) == RunCalls(<<Call("select", select)>>, <<>>)

\* FormatName that drops the schema.
FormatNameOnly(qn) == qn.name

FormatName(qn) ==
  IF qn.db_name # None
  THEN qn.db_name[1] \o <<Sep>> \o qn.name
  ELSE qn.name

extract_table_name_strings(qualified_names) ==
  {FormatName(qualified_names[i]) : i \in 1..Len(qualified_names)}

\* join with the separator after every string.
RECURSIVE JoinTrailing(_, _)
JoinTrailing(strings, sep) ==
  IF strings = <<>> THEN <<>>
  ELSE strings[1] \o <<sep>> \o JoinTrailing(Tail(strings), sep)

\* [String]::join
RECURSIVE Join(_, _)
Join(strings, sep) ==
  IF strings = <<>> THEN <<>>
  ELSE IF Len(strings) = 1 THEN strings[1]
  ELSE strings[1] \o <<sep>> \o Join(Tail(strings), sep)

\* The orders in which a HashSet may hand out its elements.
Orders(S) ==
  {p \in [1..Cardinality(S) -> S] : \A i, j \in 1..Cardinality(S) : p[i] = p[j] => i = j}

\* if let Ok(cmd) with the Option unwrapped later.
IsOk(r) == r.kind # "Err"

\* A parser result that is a command: Ok(Some(cmd)).
IsOkSome(r) == r.kind \notin {"Err", "None"}

----------------------------------------------------------------------------
(* The program. *)

InitWith(args, start) ==
  /\ arg \in args
  /\ pc = start
  /\ stack = <<>>
  /\ table_names = <<>>
  /\ table_name_strings = {}
  /\ stdout = <<>>
  /\ status = "running"
  /\ saved = None
  /\ ncalls = 0

Init ==
  InitWith({None} \cup {Some(r) : r \in ParseResults(Selects(WalkNames, MaxNodes))}, "main")

\* main, lines 103-106: the argument is there, or expect panics.
Main ==
  /\ pc = "main"
  /\ \/ /\ arg = None
        /\ pc' = "exit"
        /\ status' = "panic"
     \/ /\ arg # None
        /\ pc' = "parse"
        /\ status' = status
  /\ UNCHANGED <<arg, stack, table_names, table_name_strings, stdout, saved, ncalls>>

\* ParseSelect with an accumulator that outlives the call.
ParseSelectKeepingNames ==
  /\ pc = "parse"
  /\ IsOkSome(arg[1])
  /\ arg[1].kind = "Select"
  /\ stack' = <<Call("select", arg[1].select)>>
  /\ pc' = "walk"
  /\ UNCHANGED <<arg, table_names, table_name_strings, stdout, status, saved, ncalls>>

\* parse_sql_command_for_table_names, lines 9-14: a SELECT is walked.
ParseSelect ==
  /\ pc = "parse"
  /\ IsOkSome(arg[1])
  /\ arg[1].kind = "Select"
  /\ table_names' = <<>>
  /\ stack' = <<Call("select", arg[1].select)>>
  /\ pc' = "walk"
  /\ UNCHANGED <<arg, table_name_strings, stdout, status, saved, ncalls>>

\* lines 18-19: todo!() panics.
ParseUnsupported ==
  /\ pc = "parse"
  /\ IsOkSome(arg[1])
  /\ arg[1].kind # "Select"
  /\ pc' = "exit"
  /\ status' = "panic"
  /\ UNCHANGED <<arg, stack, table_names, table_name_strings, stdout, saved, ncalls>>

\* lines 11, 22: no command.
ParseNoCommand ==
  /\ pc = "parse"
  /\ ~IsOkSome(arg[1])
  /\ table_name_strings' = {}
  /\ pc' = "returned"
  /\ UNCHANGED <<arg, stack, table_names, stdout, status, saved, ncalls>>

\* A pending call of fn is made: the function runs up to its own calls.
Pending(fn) == pc = "walk" /\ stack # <<>> /\ Head(stack).fn = fn

\* extract_table_names_from_select, lines 44-46.
WalkSelect ==
  /\ Pending("select")
  /\ LET r == extract_table_names_from_select(Head(stack).node, table_names)
     IN  /\ stack' = r.calls \o Tail(stack)
         /\ table_names' = r.table_names
  /\ UNCHANGED <<arg, pc, table_name_strings, stdout, status, saved, ncalls>>

\* extract_table_names_from_select_body, lines 48-55.
WalkSelectBody ==
  /\ Pending("select_body")
  /\ LET r == extract_table_names_from_select_body(Head(stack).node, table_names)
     IN  /\ stack' = r.calls \o Tail(stack)
         /\ table_names' = r.table_names
  /\ UNCHANGED <<arg, pc, table_name_strings, stdout, status, saved, ncalls>>

\* extract_table_names_from_one_select, lines 57-66.
WalkOneSelect ==
  /\ Pending("one_select")
  /\ LET r == extract_table_names_from_one_select(Head(stack).node, table_names)
     IN  /\ stack' = r.calls \o Tail(stack)
         /\ table_names' = r.table_names
  /\ UNCHANGED <<arg, pc, table_name_strings, stdout, status, saved, ncalls>>

\* extract_table_names_from_from_clause, lines 68-77.
WalkFromClause ==
  /\ Pending("from_clause")
  /\ LET r == extract_table_names_from_from_clause(Head(stack).node, table_names)
     IN  /\ stack' = r.calls \o Tail(stack)
         /\ table_names' = r.table_names
  /\ UNCHANGED <<arg, pc, table_name_strings, stdout, status, saved, ncalls>>

\* extract_table_names_from_select_table, lines 79-94.
WalkSelectTable ==
  /\ Pending("select_table")
  /\ LET r == extract_table_names_from_select_table(Head(stack).node, table_names)
     IN  /\ stack' = r.calls \o Tail(stack)
         /\ table_names' = r.table_names
  /\ UNCHANGED <<arg, pc, table_name_strings, stdout, status, saved, ncalls>>

\* lines 15-16: the traversal is over, the names are formatted and returned.
Return ==
  /\ pc = "walk"
  /\ stack = <<>>
  /\ table_name_strings' = extract_table_name_strings(table_names)
  /\ pc' = "returned"
  /\ UNCHANGED <<arg, stack, table_names, stdout, status, saved, ncalls>>

\* main, lines 107-109.
MainPrint ==
  /\ pc = "returned"
  /\ \E order \in Orders(table_name_strings) :
       stdout' = Append(stdout, Join(order, Comma))
  /\ status' = "success"
  /\ pc' = "exit"
  /\ UNCHANGED <<arg, stack, table_names, table_name_strings, saved, ncalls>>

Library ==
  \/ ParseSelect
  \/ ParseUnsupported
  \/ ParseNoCommand
  \/ WalkSelect
  \/ WalkSelectBody
  \/ WalkOneSelect
  \/ WalkFromClause
  \/ WalkSelectTable
  \/ Return

Next == Main \/ Library \/ MainPrint

Spec == Init /\ [][Next]_vars

----------------------------------------------------------------------------
(* The library function called more than once in a process, as the unit    *)
(* tests of main.rs do.                                                     *)

SelectFrom(q) ==
  [body |-> [select |-> [kind |-> "Select",
                         from |-> Some([select |-> Some([kind |-> "Table", qualified_name |-> q]),
                                        joins |-> None]),
                         where_clause |-> None],
             compounds |-> None]]

\* The queries of the calls in between: one table each.
OtherQueries == {Some([kind |-> "Select", select |-> SelectFrom(q)]) : q \in WalkNames}

InitCalls ==
  InitWith({Some(r) : r \in ParseResults(Selects(WalkNames, MaxNodesCalls))}, "parse")

\* The caller keeps the first result and calls again, with the first query
\* or with another one.
NextCall ==
  /\ pc = "returned"
  /\ ncalls + 1 < MaxCalls
  /\ ncalls' = ncalls + 1
  /\ saved' = IF saved = None
              THEN Some([arg |-> arg, result |-> table_name_strings])
              ELSE saved
  /\ arg' \in {saved'[1].arg} \cup OtherQueries
  /\ pc' = "parse"
  /\ UNCHANGED <<stack, table_names, table_name_strings, stdout, status>>

NextCalls == Library \/ NextCall

SpecCalls == InitCalls /\ [][NextCalls]_vars

----------------------------------------------------------------------------
(* The program on queries of one or two tables whose names range over the  *)
(* identifier tokens.                                                       *)

TokenNames == QualifiedNamesOver(Tokens, Tokens)

FlatSelects ==
  {SelectFrom(q) : q \in TokenNames}
  \cup {[body |-> [select |-> [kind |-> "Select",
                               from |-> Some([select |-> Some([kind |-> "Table", qualified_name |-> q1]),
                                              joins |-> Some(<<[table |-> [kind |-> "Table", qualified_name |-> q2]]>>)]),
                               where_clause |-> None],
                   compounds |-> None]] : q1 \in TokenNames, q2 \in TokenNames}

InitFormat ==
  InitWith({None} \cup {Some(r) : r \in ParseResults(FlatSelects)}, "main")

SpecFormat == InitFormat /\ [][Next]_vars

----------------------------------------------------------------------------
(* The program run to its end: a sequential process takes its next step.   *)

InitLive ==
  InitWith({None} \cup {Some(r) : r \in ParseResults(Selects(WalkNames, MaxNodesLive))}, "main")

SpecLive == InitLive /\ [][Next]_vars /\ WF_vars(Next)

----------------------------------------------------------------------------
(* What the claims speak of.  The tables a SELECT refers to are defined    *)
(* here on the tree itself, as sets and as the left-to-right listing of    *)
(* its FROM/JOIN positions, with no accumulator and no pending calls.      *)

Range(seq) == {seq[i] : i \in 1..Len(seq)}

NoDuplicates(seq) == \A i, j \in 1..Len(seq) : seq[i] = seq[j] => i = j

IsSelect == arg # None /\ arg[1].kind = "Select"

RECURSIVE TablesOfSelectTable(_), TablesOfFromClause(_), TablesOfOneSelect(_), TablesOfSelect(_)

TablesOfSelectTable(t) ==
  CASE t.kind \in {"Table", "TableCall"} -> {t.qualified_name}
    [] t.kind = "Select" -> TablesOfSelect(t.select)
    [] t.kind = "Sub" -> TablesOfFromClause(t.from)

TablesOfFromClause(f) ==
  (IF f.select = None THEN {} ELSE TablesOfSelectTable(f.select[1]))
  \cup (IF f.joins = None THEN {}
        ELSE UNION {TablesOfSelectTable(f.joins[1][i].table) : i \in 1..Len(f.joins[1])})

TablesOfOneSelect(o) ==
  IF o.kind = "Values" THEN {}
  ELSE IF o.from = None THEN {} ELSE TablesOfFromClause(o.from[1])

TablesOfSelect(s) ==
  TablesOfOneSelect(s.body.select)
  \cup (IF s.body.compounds = None THEN {}
        ELSE UNION {TablesOfOneSelect(s.body.compounds[1][i].select) : i \in 1..Len(s.body.compounds[1])})

\* The tables a SELECT reads: those of its FROM/JOIN positions and those of
\* the subqueries of its WHERE clauses.
RECURSIVE ReadBySelectTable(_), ReadByFromClause(_), ReadByOneSelect(_), ReadBySelect(_)

ReadBySelectTable(t) ==
  CASE t.kind \in {"Table", "TableCall"} -> {t.qualified_name}
    [] t.kind = "Select" -> ReadBySelect(t.select)
    [] t.kind = "Sub" -> ReadByFromClause(t.from)

ReadByFromClause(f) ==
  (IF f.select = None THEN {} ELSE ReadBySelectTable(f.select[1]))
  \cup (IF f.joins = None THEN {}
        ELSE UNION {ReadBySelectTable(f.joins[1][i].table) : i \in 1..Len(f.joins[1])})

ReadByOneSelect(o) ==
  IF o.kind = "Values" THEN {}
  ELSE (IF o.from = None THEN {} ELSE ReadByFromClause(o.from[1]))
       \cup (IF o.where_clause = None THEN {} ELSE ReadBySelect(o.where_clause[1]))

ReadBySelect(s) ==
  ReadByOneSelect(s.body.select)
  \cup (IF s.body.compounds = None THEN {}
        ELSE UNION {ReadByOneSelect(s.body.compounds[1][i].select) : i \in 1..Len(s.body.compounds[1])})

\* The tables named under a subquery source or a nested FROM of f.
NestedTablesOfFromClause(f) ==
  LET sources == (IF f.select = None THEN {} ELSE {f.select[1]})
                 \cup (IF f.joins = None THEN {} ELSE {f.joins[1][i].table : i \in 1..Len(f.joins[1])})
  IN  UNION {TablesOfSelectTable(t) : t \in {u \in sources : u.kind \in {"Select", "Sub"}}}

\* The tables named directly, as a primary or joined source of f.
DirectTablesOfFromClause(f) ==
  LET sources == (IF f.select = None THEN {} ELSE {f.select[1]})
                 \cup (IF f.joins = None THEN {} ELSE {f.joins[1][i].table : i \in 1..Len(f.joins[1])})
  IN  {t.qualified_name : t \in {u \in sources : u.kind \in {"Table", "TableCall"}}}

\* The branches of a compound select: the primary one, then the continuations.
Branches(s) ==
  <<s.body.select>>
  \o (IF s.body.compounds = None THEN <<>>
      ELSE [i \in 1..Len(s.body.compounds[1]) |-> s.body.compounds[1][i].select])

BranchSelect(o) == [body |-> [select |-> o, compounds |-> None]]

RECURSIVE Concat(_)
Concat(seqs) == IF seqs = <<>> THEN <<>> ELSE Head(seqs) \o Concat(Tail(seqs))

RECURSIVE ListSelectTable(_), ListFromClause(_), ListOneSelect(_), ListSelect(_)

ListSelectTable(t) ==
  CASE t.kind \in {"Table", "TableCall"} -> <<t.qualified_name>>
    [] t.kind = "Select" -> ListSelect(t.select)
    [] t.kind = "Sub" -> ListFromClause(t.from)

ListFromClause(f) ==
  (IF f.select = None THEN <<>> ELSE ListSelectTable(f.select[1]))
  \o (IF f.joins = None THEN <<>>
      ELSE Concat([i \in 1..Len(f.joins[1]) |-> ListSelectTable(f.joins[1][i].table)]))

ListOneSelect(o) ==
  IF o.kind = "Values" THEN <<>>
  ELSE IF o.from = None THEN <<>> ELSE ListFromClause(o.from[1])

ListSelect(s) == Concat([i \in 1..Len(Branches(s)) |-> ListOneSelect(Branches(s)[i])])

\* A listing with every repetition after the first dropped.
RECURSIVE FirstOccurrences(_)
FirstOccurrences(seq) ==
  IF seq = <<>> THEN <<>>
  ELSE LET front == FirstOccurrences(SubSeq(seq, 1, Len(seq) - 1))
           last == seq[Len(seq)]
       IN  IF last \in Range(front) THEN front ELSE Append(front, last)

\* The pieces of a line between its separators.
RECURSIVE Split(_, _)
Split(line, sep) ==
  IF \A i \in 1..Len(line) : line[i] # sep
  THEN <<line>>
  ELSE LET k == CHOOSE i \in 1..Len(line) : line[i] = sep /\ \A j \in 1..(i - 1) : line[j] # sep
       IN  <<SubSeq(line, 1, k - 1)>> \o Split(SubSeq(line, k + 1, Len(line)), sep)

Fields(line, sep) == IF line = <<>> THEN <<>> ELSE Split(line, sep)

----------------------------------------------------------------------------
(* The claims. *)

\* C1: a parsed command that is not a plain SELECT (DML, DDL, EXPLAIN,
\* EXPLAIN QUERY PLAN) makes parse_sql_command_for_table_names return the
\* empty set, without a panic.
C1_NonSelectReturnsEmpty ==
  (arg # None /\ arg[1].kind \in {"Explain", "ExplainQueryPlan", "OtherStmt"})
    => /\ status # "panic"
       /\ pc \in {"returned", "exit"} => table_name_strings = {}

\* C2, as claimed: for a SELECT that reads from the set T of tables, wherever
\* it refers to them, the extraction returns exactly T.
C2_ReturnsEveryTableRead ==
  (pc = "returned" /\ IsSelect)
    => Range(table_names) = ReadBySelect(arg[1].select)

\* C2, amended: for a SELECT whose FROM/JOIN positions (primary and joined
\* sources, subquery sources, nested FROMs, in every compound branch) name
\* the set T of tables and table-valued functions, extract_table_names
\* returns exactly T, each name once, and nothing for a table read only in
\* a subquery of a WHERE clause; a VALUES-only select and a select with no
\* FROM clause give nothing.
C2_ExtractionReturnsExactlyT ==
  (pc = "returned" /\ IsSelect)
    => /\ Range(table_names) = TablesOfSelect(arg[1].select)
       /\ Len(table_names) = Cardinality(TablesOfSelect(arg[1].select))
       /\ (\A i \in 1..Len(Branches(arg[1].select)) :
             LET o == Branches(arg[1].select)[i]
             IN  o.kind = "Values" \/ o.from = None) => table_names = <<>>

C2_Witness ==
  /\ pc = "returned"
  /\ IsSelect
  /\ Cardinality(TablesOfSelect(arg[1].select)) = 2
  /\ Len(table_names) = 2
  /\ Len(Branches(arg[1].select)) = 2
  /\ \E i \in 1..2 :
       LET o == Branches(arg[1].select)[i]
       IN  /\ o.kind = "Select"
           /\ o.from # None
           /\ NestedTablesOfFromClause(o.from[1]) # {}

\* C3: a table or table-valued-function call in a FROM/JOIN position at any
\* depth is in the returned set of strings, also when it is named only under
\* a subquery source or a nested FROM.
C3_NestedTablesAreReturned ==
  (pc = "returned" /\ IsSelect)
    => \A i \in 1..Len(Branches(arg[1].select)) :
         LET o == Branches(arg[1].select)[i]
         IN  (o.kind = "Select" /\ o.from # None)
               => \A q \in NestedTablesOfFromClause(o.from[1]) \cup DirectTablesOfFromClause(o.from[1]) :
                    FormatName(q) \in table_name_strings

C3_Witness ==
  /\ pc = "returned"
  /\ IsSelect
  /\ LET o == arg[1].select.body.select
     IN  /\ o.kind = "Select"
         /\ o.from # None
         /\ \E q \in NestedTablesOfFromClause(o.from[1]) :
              /\ q \notin DirectTablesOfFromClause(o.from[1])
              /\ DirectTablesOfFromClause(o.from[1]) # {}
              /\ FormatName(q) \in table_name_strings

\* C4: at every point of the traversal and in its result the accumulator
\* holds no qualified name twice, however often the table is referred to, and
\* the returned strings are as many as the names.
C4_AccumulatorHasNoDuplicates ==
  /\ NoDuplicates(table_names)
  /\ (pc = "returned" /\ IsSelect) => Cardinality(table_name_strings) = Len(table_names)

C4_Witness ==
  /\ pc = "walk"
  /\ stack = <<>>
  /\ Len(table_names) = 2
  /\ Len(ListSelect(arg[1].select)) > 3

\* C5: the result for a compound select is the union of the results of
\* extracting each of its branches alone.
C5_UnionOfBranches ==
  (pc = "returned" /\ IsSelect)
    => Range(table_names)
         = UNION {Range(extract_table_names(BranchSelect(Branches(arg[1].select)[i]))) :
                  i \in 1..Len(Branches(arg[1].select))}

C5_Witness ==
  /\ pc = "returned"
  /\ IsSelect
  /\ Len(Branches(arg[1].select)) = 2
  /\ \A i \in 1..2 :
       /\ TablesOfOneSelect(Branches(arg[1].select)[i]) # {}
       /\ \A j \in 1..2 : i # j =>
            TablesOfOneSelect(Branches(arg[1].select)[i]) # TablesOfOneSelect(Branches(arg[1].select)[j])

\* C6: schema.table and table are different entries and stay different as
\* strings: a qualified name is printed schema, U+001F, table, an unqualified
\* one as it is, the two never give the same string, and the returned set
\* has one string for each qualified name.
C6_FormattedNamesStayDistinct ==
  (pc = "returned" /\ IsSelect)
    => /\ \A i \in 1..Len(table_names) :
            LET qn == table_names[i]
            IN  IF qn.db_name = None
                THEN qn.name \in table_name_strings
                ELSE qn.db_name[1] \o <<Sep>> \o qn.name \in table_name_strings
       /\ \A i, j \in 1..Len(table_names) :
            (table_names[i].db_name # None /\ table_names[j].db_name = None)
              => table_names[i].db_name[1] \o <<Sep>> \o table_names[i].name # table_names[j].name
       /\ Cardinality(table_name_strings) = Len(table_names)

C6_Witness ==
  /\ pc = "returned"
  /\ IsSelect
  /\ Len(table_names) = 2
  /\ table_names[1].db_name # None
  /\ table_names[2].db_name = None
  /\ table_names[1].name = table_names[2].name
  /\ \E k \in 1..Len(table_names[2].name) : table_names[2].name[k] = Sep
  /\ Cardinality(table_name_strings) = 2

\* C7: when the parser rejects the text or yields no command, the function
\* returns the empty set, nothing panics and no error is reported: the
\* process prints its empty line and succeeds.
C7_ParseFailureReturnsEmpty ==
  (arg # None /\ arg[1].kind \in {"Err", "None"})
    => /\ status # "panic"
       /\ pc \in {"returned", "exit"} => table_name_strings = {}
       /\ pc = "exit" => (status = "success" /\ stdout = << <<>> >>)

C7_Witness ==
  /\ arg # None
  /\ arg[1].kind = "Err"
  /\ pc = "exit"
  /\ status = "success"

\* C8: invoked with an argument that parses as a SELECT, the process prints
\* one line, the extracted strings with a comma between any two, each string
\* once, no comma in front or at the end, and exits with success.
C8_PrintsNamesJoinedByComma ==
  (pc = "exit" /\ IsSelect)
    => /\ status = "success"
       /\ Len(stdout) = 1
       /\ LET fields == Fields(stdout[1], Comma)
          IN  /\ Range(fields) = table_name_strings
              /\ Len(fields) = Cardinality(table_name_strings)

C8_Witness ==
  /\ pc = "exit"
  /\ IsSelect
  /\ status = "success"
  /\ Cardinality(table_name_strings) = 2
  /\ Len(stdout) = 1

\* C9: a call on the query of the first call returns what the first call
\* returned, whatever was extracted in between, and no step of a call
\* changes its input.
C9_SameQuerySameResult ==
  /\ [](\/ ~(pc = "returned" /\ saved # None)
        \/ arg # saved[1].arg
        \/ table_name_strings = saved[1].result)
  /\ [][(pc \in {"parse", "walk"}) => (arg' = arg)]_vars

C9_Witness ==
  /\ pc = "returned"
  /\ ncalls = 2
  /\ saved # None
  /\ arg = saved[1].arg
  /\ saved[1].result # {}
  /\ table_name_strings = saved[1].result
  /\ Cardinality(table_name_strings) = 2

\* C10: on every SELECT the traversal comes to its end without failing, and
\* what it has collected then is the left-to-right listing of the tree's
\* tables (primary select before continuations, primary source before joined
\* sources, every kind of source followed), first occurrences only; absent
\* parts add nothing.
C10_TraversalTerminatesInOrder ==
  /\ <>(pc = "exit")
  /\ [](IsSelect => status # "panic")
  /\ []((pc = "returned" /\ IsSelect)
          => table_names = FirstOccurrences(ListSelect(arg[1].select)))
  /\ []((pc = "walk" /\ stack # <<>>)
          => /\ Head(stack).fn \in {"select", "select_body", "one_select", "from_clause", "select_table"}
             /\ Head(stack).fn = "select_table"
                  => Head(stack).node.kind \in {"Table", "TableCall", "Select", "Sub"})

C10_Witness ==
  /\ pc = "exit"
  /\ IsSelect
  /\ status = "success"
  /\ Len(Branches(arg[1].select)) = 2
  /\ Branches(arg[1].select)[2].kind = "Select"
  /\ Branches(arg[1].select)[2].from = None
  /\ Len(table_names) = 2
  /\ table_names = ListSelect(arg[1].select)

====
